---------------------------- MODULE Spec2Model ----------------------------
(***************************************************************************)
(* Roadtrip Weather Planning Tool: the city catalog (add_city /            *)
(* remove_city), the route builder (get_route) and the route table update  *)
(* (update_route_table) of data_utils.py, with the weather helpers of      *)
(* weather_utils.py they call.                                             *)
(*                                                                         *)
(* Python values that a cell of the route table can hold are tagged        *)
(* records [t |-> <type>, v |-> <value>]: "int", "float" (v in tenths),    *)
(* "str", "date" (v is the proleptic ordinal, date.toordinal()).           *)
(* A raised exception is a result record with raised = TRUE.               *)
(***************************************************************************)
EXTENDS Integers, Sequences, FiniteSets, TLC

VARIABLES
    cities,             \* data_utils.cities: country -> list of city names
    cities_pickle,      \* the file cities.pickle
    panam_cities,       \* coordinate table: sequence of rows
    city_normals,       \* normals cache: city name -> record
    st_warnings,        \* warnings load_data returns (main.py line 27)
    call,               \* the last add_city / remove_city call and how it ended
    route_start_date,   \* main.panam_start
    route_start_city,   \* main.route_start
    route_table_edits,  \* st.session_state['route_table_edits']
    route_df,           \* result of get_route (main.py line 95)
    final_route_df      \* result of update_route_table

catalogVars == <<cities, cities_pickle, panam_cities, city_normals,
                 st_warnings, call>>
routeVars == <<route_start_date, route_start_city, route_table_edits,
               route_df, final_route_df>>
vars == <<cities, cities_pickle, panam_cities, city_normals, st_warnings, call,
          route_start_date, route_start_city, route_table_edits,
          route_df, final_route_df>>

---------------------------------------------------------------------------
(* Bounds of the model *)

\* add_city is not taken once the catalog holds this many entries
MaxCatalog == 3
\* largest coordinate table a route is built from
MaxStops == 3
\* largest number of entries of edited_cells
MaxEdits == 1
\* in the specification of the editor: largest number of entries of
\* deleted_rows, and of edited_cells
MaxDeleted == 3
MaxCellEdits == 2
\* in the specification of the route builder: largest coordinate table
MaxTourStops == 4

---------------------------------------------------------------------------
(* The environment: catalog file, geodata files, weather service *)

\* keys of the dictionary stored in cities.pickle
CatalogCountries == {"Peru", "Chile"}
\* countries a caller may name; "Spain" is no key of the catalog
Countries == CatalogCountries \cup {"Spain"}
\* city names a caller may name; "Z" is in no geodata file
CityNames == {"A", "B", "C", "N", "Z"}

Row(country, city, lat, lng) ==
    [country |-> country, city |-> city, lat |-> lat, lng |-> lng]

\* Geodata/<country>.csv after lines 119-122: rows in file order.
\* All cities lie on the equator, so that the geodesic is an arc of it.
Geodata(country) ==
    IF country = "Peru"
      THEN << Row("Peru", "A", 0, 0), Row("Peru", "B", 0, 1),
              Row("Peru", "C", 0, 10), Row("Peru", "N", 0, 5),
              Row("Peru", "M", 0, 7) >>
      ELSE << Row("Chile", "B", 0, 3) >>

\* Stations().nearby(lat, lon).fetch(1).index[0]
NearestStation(lat, lng) == "st" \o ToString(lat) \o "_" \o ToString(lng)

\* stations for which Normals(station, 1991, 2020).fetch() is empty
StationsWithoutNormals == { NearestStation(0, 5), NearestStation(0, 7) }

START_YEAR == 1991
END_YEAR == 2020

\* Normals(...).fetch().to_dict()['tavg']: month -> value, empty when no data
FetchNormalsTavg(station) ==
    IF station \in StationsWithoutNormals THEN << >>
    ELSE [m \in 1..12 |-> 10 + m]

get_normals_per_city(x) ==
    LET station_id == NearestStation(x.lat, x.lng)
        data == FetchNormalsTavg(station_id)
    IN  [StationID |-> station_id, Normals |-> data, Missing |-> (Len(data) = 0)]

---------------------------------------------------------------------------
(* Sequence helpers *)

\* df.loc[mask] is SelectSeq(table, mask): the rows passing the mask, in table order

RECURSIVE ListRemove(_, _)
\* list.remove(x): drops the first occurrence; the caller checks membership
ListRemove(list, x) ==
    IF Len(list) = 0 THEN << >>
    ELSE IF Head(list) = x THEN Tail(list)
    ELSE << Head(list) >> \o ListRemove(Tail(list), x)

ListHas(list, x) == \E i \in 1..Len(list) : list[i] = x

RECURSIVE SumLens(_, _)
SumLens(f, S) ==
    IF S = {} THEN 0
    ELSE LET c == CHOOSE c \in S : TRUE IN Len(f[c]) + SumLens(f, S \ {c})

CatalogSize == SumLens(cities, DOMAIN cities)

---------------------------------------------------------------------------
(* The persisted catalog *)

\* open('cities.pickle', 'wb'): the file is truncated before anything is written
TruncatedFile == [truncated |-> TRUE, data |-> [c \in {} |-> << >>]]
\* pickle.dump(cities, handle)
PickleDump(catalog) == [truncated |-> FALSE, data |-> catalog]

---------------------------------------------------------------------------
(* City Catalog Maintainer *)

\* add_info_new_city without the test of line 128: the row is concatenated
\* whether or not normals were found
AddInfoAlwaysConcat(table, normals, new_city, new_country) ==
    LET geodata == Geodata(new_country)
        relevant_geodata == SelectSeq(geodata, LAMBDA r : r.city = new_city)
    IN  IF Len(relevant_geodata) = 0
          THEN [raised |-> TRUE, panam_cities |-> table,
                city_normals |-> normals, warning |-> FALSE]
          ELSE LET rec == get_normals_per_city(relevant_geodata[1])
               IN  [raised |-> FALSE,
                    panam_cities |-> table \o relevant_geodata,
                    city_normals |-> [k \in DOMAIN normals \cup {new_city} |->
                                        IF k = new_city THEN rec ELSE normals[k]],
                    warning |-> Len(rec.Normals) = 0]

add_info_new_city(table, normals, new_city, new_country) ==
    LET geodata == Geodata(new_country)
        relevant_geodata == SelectSeq(geodata, LAMBDA r : r.city = new_city)
    IN  IF Len(relevant_geodata) = 0
          THEN \* relevant_geodata.iloc[0] raises IndexError
               [raised |-> TRUE, panam_cities |-> table,
                city_normals |-> normals, warning |-> FALSE]
          ELSE LET rec == get_normals_per_city(relevant_geodata[1])
                   normals2 == [k \in DOMAIN normals \cup {new_city} |->
                                   IF k = new_city THEN rec ELSE normals[k]]
               IN  IF Len(rec.Normals) = 0
                     THEN [raised |-> FALSE, panam_cities |-> table,
                           city_normals |-> normals2, warning |-> TRUE]
                     ELSE [raised |-> FALSE,
                           panam_cities |-> table \o relevant_geodata,
                           city_normals |-> normals2, warning |-> FALSE]

remove_info_old_city(table, normals, old_city, old_country) ==
    [panam_cities |->
        SelectSeq(table, LAMBDA r : ~(r.city = old_city /\ r.country = old_country)),
     city_normals |->
        [k \in DOMAIN normals \ {old_city} |-> normals[k]]]

CallRec(op, country, city, status, warning) ==
    [op |-> op, country |-> country, city |-> city,
     status |-> status, warning |-> warning]

add_city(country, city) ==
    /\ CatalogSize < MaxCatalog
    /\ IF country \notin DOMAIN cities
         THEN \* cities[country] raises KeyError inside the with block
              /\ cities_pickle' = TruncatedFile
              /\ UNCHANGED <<cities, panam_cities, city_normals>>
              /\ call' = CallRec("add_city", country, city, "error", FALSE)
         ELSE LET appended == [cities EXCEPT ![country] = Append(@, city)]
                  info == add_info_new_city(panam_cities, city_normals,
                                            city, country)
              IN  /\ cities' = appended
                  /\ cities_pickle' = PickleDump(appended)
                  /\ panam_cities' = info.panam_cities
                  /\ city_normals' = info.city_normals
                  /\ call' = CallRec("add_city", country, city,
                                     IF info.raised THEN "error" ELSE "ok",
                                     info.warning)
    /\ UNCHANGED <<st_warnings, routeVars>>

remove_city(country, city) ==
    LET info == remove_info_old_city(panam_cities, city_normals, city, country)
    IN  /\ IF country \notin DOMAIN cities
             THEN \* cities[country] raises KeyError inside the with block;
                  \* city_normals.pop has already happened, the filtered
                  \* table is never returned
                  /\ city_normals' = info.city_normals
                  /\ cities_pickle' = TruncatedFile
                  /\ UNCHANGED <<cities, panam_cities>>
                  /\ call' = CallRec("remove_city", country, city, "error", FALSE)
             ELSE IF ~ListHas(cities[country], city)
             THEN \* list.remove raises ValueError inside the with block
                  /\ city_normals' = info.city_normals
                  /\ cities_pickle' = TruncatedFile
                  /\ UNCHANGED <<cities, panam_cities>>
                  /\ call' = CallRec("remove_city", country, city, "error", FALSE)
             ELSE LET removed == [cities EXCEPT ![country] = ListRemove(@, city)]
                  IN  /\ cities' = removed
                      /\ cities_pickle' = PickleDump(removed)
                      /\ panam_cities' = info.panam_cities
                      /\ city_normals' = info.city_normals
                      /\ call' = CallRec("remove_city", country, city, "ok", FALSE)
        /\ UNCHANGED <<st_warnings, routeVars>>

---------------------------------------------------------------------------
(* Python values held by the cells of the route table *)

PyInt(n) == [t |-> "int", v |-> n]
\* a float, v in tenths
PyFloat(tenths) == [t |-> "float", v |-> tenths]
PyStr(s) == [t |-> "str", v |-> s]
\* a datetime.date, v = date.toordinal()
PyDate(ordinal) == [t |-> "date", v |-> ordinal]

\* date(2022, 1, 1).toordinal(): the first day the calendar below covers
Ordinal2022 == 738156

IsLeap(y) == (y % 4 = 0) /\ ((y % 100 # 0) \/ (y % 400 = 0))
DaysInYear(y) == IF IsLeap(y) THEN 366 ELSE 365
DaysInMonth(y, m) ==
    IF m = 2 THEN (IF IsLeap(y) THEN 29 ELSE 28)
    ELSE IF m \in {4, 6, 9, 11} THEN 30 ELSE 31

RECURSIVE MonthDayFrom(_, _, _)
MonthDayFrom(y, m, rest) ==
    IF rest < DaysInMonth(y, m) THEN [year |-> y, month |-> m, day |-> rest + 1]
    ELSE MonthDayFrom(y, m + 1, rest - DaysInMonth(y, m))

RECURSIVE YearFrom(_, _)
YearFrom(y, rest) ==
    IF rest < DaysInYear(y) THEN MonthDayFrom(y, 1, rest)
    ELSE YearFrom(y + 1, rest - DaysInYear(y))

\* date.fromordinal(n) for n >= Ordinal2022: its year, month and day
FromOrdinal(n) == YearFrom(2022, n - Ordinal2022)

\* timedelta(days = x).days, for x an int or a float; other types raise
TimedeltaDays(x) == IF x.t = "int" THEN x.v ELSE x.v \div 10

---------------------------------------------------------------------------
(* Geodesic distance *)

\* metres of one degree of longitude on the equator of the WGS-84 ellipsoid
EquatorMetresPerDegree == 111319

Abs(n) == IF n < 0 THEN -n ELSE n

\* geopy.distance.geodesic(x, y).km in metres, for two points of the equator
get_lat_lng_dist(x, y) == EquatorMetresPerDegree * Abs(x.lng - y.lng)

\* num / den rounded to the nearest integer, halves to the even one, as
\* round() and .round(1) do.  A distance in km that ends in .5 is a float
\* holding exactly that; a mean that ends in half a tenth is not, so the
\* weather values of DailyFetch are chosen to give no such mean
RoundHalfEven(num, den) ==
    LET q == num \div den
        r == num % den
    IN  IF 2 * r < den THEN q
        ELSE IF 2 * r > den THEN q + 1
        ELSE IF q % 2 = 0 THEN q ELSE q + 1

\* round(km) of a distance in metres: Python's round() of a float takes a
\* half to the even integer
RoundKm(metres) == RoundHalfEven(metres, 1000)

---------------------------------------------------------------------------
(* Route Builder *)

Stop(city, est_dist, days, arrival) ==
    [city |-> city, est_dist |-> est_dist, days_to_city |-> days,
     arrival_date |-> arrival]

Raised(kind) == [state |-> "df", raised |-> TRUE, error |-> kind, rows |-> << >>]
Returned(rows) == [state |-> "df", raised |-> FALSE, error |-> "", rows |-> rows]

\* the frame without its row at position k
DropRow(rows, k) == SubSeq(rows, 1, k - 1) \o SubSeq(rows, k + 1, Len(rows))

\* the positions of the rows of least est_dist
LeastDist(rows) ==
    { k \in 1..Len(rows) :
        \A j \in 1..Len(rows) : rows[k].est_dist <= rows[j].est_dist }

RECURSIVE SortByDist(_)
\* next_cities.sort_values(by='est_dist'): the default kind, quicksort, is not
\* stable, so rows of equal distance come out in an order the build decides;
\* the set of the orders a sort by est_dist can give
SortByDist(rows) ==
    IF Len(rows) = 0 THEN { << >> }
    ELSE UNION { { << rows[k] >> \o s : s \in SortByDist(DropRow(rows, k)) } :
                 k \in LeastDist(rows) }

RECURSIVE RouteLoopSortOnce(_, _, _, _, _)
\* RouteLoop that takes the distances once, from the start city, and then
\* walks down that one ordering
RouteLoopSortOnce(i, n, next_cities, current_city, route) ==
    IF i > n - 2 THEN { Returned(route) }
    ELSE
      LET current_coords == SelectSeq(next_cities, LAMBDA r : r.city = current_city)
          rest == SelectSeq(next_cities, LAMBDA r : r.city # current_city)
      IN  IF Len(rest) = 0 THEN { Raised("IndexError") }
          ELSE IF Len(current_coords) >= 2 THEN { Raised("TypeError") }
          ELSE
            LET origin == IF Len(current_coords) = 0
                            THEN [lat |-> 0, lng |-> 0]
                            ELSE [lat |-> current_coords[1].lat,
                                  lng |-> current_coords[1].lng]
                with_dist == IF i > 0 THEN rest
                             ELSE [k \in 1..Len(rest) |->
                                     [rest[k] EXCEPT !.est_dist =
                                         get_lat_lng_dist(rest[k], origin)]]
                prev == route[i + 1]
            IN  UNION {
                  LET new_stop == Stop(PyStr(sorted[1].city), PyInt(0), PyInt(0),
                                       PyDate(prev.arrival_date.v
                                            + TimedeltaDays(prev.days_to_city)))
                      route2 == Append(
                          [route EXCEPT ![i + 1].est_dist =
                              PyStr(ToString(RoundKm(
                                  get_lat_lng_dist(sorted[1], origin))) \o " km")],
                          new_stop)
                  IN  RouteLoopSortOnce(i + 1, n, sorted, sorted[1].city, route2)
                  : sorted \in (IF i > 0 THEN { rest } ELSE SortByDist(with_dist)) }

RECURSIVE RouteLoopDistOnArrival(_, _, _, _, _)
\* RouteLoop that writes the distance of a leg on the stop the leg arrives at
RouteLoopDistOnArrival(i, n, next_cities, current_city, route) ==
    IF i > n - 2 THEN { Returned(route) }
    ELSE
      LET current_coords == SelectSeq(next_cities, LAMBDA r : r.city = current_city)
          rest == SelectSeq(next_cities, LAMBDA r : r.city # current_city)
      IN  IF Len(rest) = 0 THEN { Raised("IndexError") }
          ELSE IF Len(current_coords) >= 2 THEN { Raised("TypeError") }
          ELSE
            LET origin == IF Len(current_coords) = 0
                            THEN [lat |-> 0, lng |-> 0]
                            ELSE [lat |-> current_coords[1].lat,
                                  lng |-> current_coords[1].lng]
                with_dist == [k \in 1..Len(rest) |->
                                [rest[k] EXCEPT !.est_dist =
                                    get_lat_lng_dist(rest[k], origin)]]
                prev == route[i + 1]
            IN  UNION {
                  LET new_stop == Stop(PyStr(sorted[1].city),
                                       PyStr(ToString(RoundKm(sorted[1].est_dist))
                                             \o " km"),
                                       PyInt(0),
                                       PyDate(prev.arrival_date.v
                                            + TimedeltaDays(prev.days_to_city)))
                  IN  RouteLoopDistOnArrival(i + 1, n, sorted, sorted[1].city,
                                             Append(route, new_stop))
                  : sorted \in SortByDist(with_dist) }

RECURSIVE RouteLoop(_, _, _, _, _)
\* iteration i (0-based) of the loop of lines 232-241, for every order the
\* sort may give: the set of the results
RouteLoop(i, n, next_cities, current_city, route) ==
    IF i > n - 2 THEN { Returned(route) }
    ELSE
      LET current_coords == SelectSeq(next_cities, LAMBDA r : r.city = current_city)
          rest == SelectSeq(next_cities, LAMBDA r : r.city # current_city)
      IN  IF Len(rest) = 0
            THEN { Raised("IndexError") }  \* next_cities.city.iloc[0] of an empty frame
          ELSE IF Len(current_coords) >= 2
            THEN { Raised("TypeError") }   \* Point() of a Series of several tuples
          ELSE
            LET origin == IF Len(current_coords) = 0
                            THEN [lat |-> 0, lng |-> 0]  \* Point() of an empty Series
                            ELSE [lat |-> current_coords[1].lat,
                                  lng |-> current_coords[1].lng]
                with_dist == [k \in 1..Len(rest) |->
                                [rest[k] EXCEPT !.est_dist =
                                    get_lat_lng_dist(rest[k], origin)]]
                prev == route[i + 1]
            IN  UNION {
                  LET est_dist == sorted[1].est_dist
                      new_stop == Stop(PyStr(sorted[1].city), PyInt(0), PyInt(0),
                                       PyDate(prev.arrival_date.v
                                            + TimedeltaDays(prev.days_to_city)))
                      route2 == Append(
                          [route EXCEPT ![i + 1].est_dist =
                              PyStr(ToString(RoundKm(est_dist)) \o " km")],
                          new_stop)
                  IN  RouteLoop(i + 1, n, sorted, sorted[1].city, route2)
                  : sorted \in SortByDist(with_dist) }

get_route(start_date, start_city, table) ==
    LET next_cities == [k \in 1..Len(table) |->
                          [country |-> table[k].country, city |-> table[k].city,
                           lat |-> table[k].lat, lng |-> table[k].lng,
                           est_dist |-> 0]]
    IN  RouteLoop(0, Len(table), next_cities, start_city,
                  << Stop(PyStr(start_city), PyInt(0), PyInt(0), start_date) >>)

---------------------------------------------------------------------------
(* Historical dailies (weather_utils.get_historical_dailies) *)

Targets == {"tavg", "tmin", "tmax", "prcp", "snow"}

\* the years queried: range(START_YEAR, END_YEAR)
QueriedYears == START_YEAR..(END_YEAR - 1)

\* stations for which Daily(...).fetch() is empty for every day
StationsWithoutDailies == { NearestStation(0, 5) }
\* stations whose daily data cover only the last FewYears years up to END_YEAR
StationsWithFewDailies == { NearestStation(0, 7) }
FewYears == 5

\* the years for which the service holds daily data of the station
YearsWithDailies(station) ==
    IF station \in StationsWithoutDailies THEN {}
    ELSE IF station \in StationsWithFewDailies
      THEN (END_YEAR - FewYears + 1)..END_YEAR
    ELSE START_YEAR..END_YEAR

\* a number that tells the stations of the geodata apart
StationNumbers ==
    [s \in { NearestStation(0, n) : n \in 0..10 } |->
        CHOOSE n \in 0..10 : s = NearestStation(0, n)]

StationNumber(station) == StationNumbers[station]

\* Daily(station, datetime(y, m, d), datetime(y, m, d)).fetch(): the row of
\* that day, values in tenths.  The values rise by two tenths a day and by
\* two tenths a year, so that the mean of a day over consecutive years and the
\* mean of a month over consecutive years are never half a tenth away from a
\* tenth: the floating-point mean of the code and the exact mean then round
\* to the same tenth
DailyFetch(station, year, month, day) ==
    LET tavg == 100 + 10 * month + 2 * day + 2 * (year - START_YEAR)
                + 3 * StationNumber(station)
    IN  [tavg |-> tavg, tmin |-> tavg - 50, tmax |-> tavg + 50,
         prcp |-> 2 * day, snow |-> 0]

RECURSIVE SumDailies(_, _, _, _, _)
\* column sums of the concatenated frames of the years from year on
SumDailies(station, year, month, day, acc) ==
    IF year > END_YEAR - 1 THEN acc
    ELSE IF year \notin YearsWithDailies(station)
      THEN SumDailies(station, year + 1, month, day, acc)
    ELSE LET row == DailyFetch(station, year, month, day)
         IN  SumDailies(station, year + 1, month, day,
                        [k \in Targets |-> acc[k] + row[k]])

\* str() of a float given in tenths
FormatTenths(x) ==
    (IF x < 0 THEN "-" ELSE "") \o ToString(Abs(x) \div 10) \o "."
        \o ToString(Abs(x) % 10)

\* datetime(year, month, day) raises ValueError for one of the queried years
DailiesDateError(day, month) ==
    \E year \in QueriedYears : day > DaysInMonth(year, month)

\* get_historical_dailies(...).round(1).to_dict(): per target the printed mean
get_historical_dailies(station_id, day, month) ==
    IF DailiesDateError(day, month)
      THEN [raised |-> TRUE, avgs |-> [k \in Targets |-> ""], available_years |-> 0]
    ELSE IF QueriedYears \cap YearsWithDailies(station_id) = {}
      THEN [raised |-> FALSE, avgs |-> [k \in Targets |-> "nan"],
            available_years |-> 0]
    ELSE LET n == Cardinality(QueriedYears \cap YearsWithDailies(station_id))
             sums == SumDailies(station_id, START_YEAR, month, day,
                                [k \in Targets |-> 0])
         IN  [raised |-> FALSE,
              avgs |-> [k \in Targets |-> FormatTenths(RoundHalfEven(sums[k], n))],
              available_years |-> n]

---------------------------------------------------------------------------
(* Route Table Editor and Weather Window Annotator *)

\* columns of the frame get_route returns, in order
NumColumns == 4

\* an entry of edited_cells: key "row:col" -> value
Edit(row, col, val) == [row |-> row, col |-> col, val |-> val]

RECURSIVE KeepIndicesOneBased(_, _, _)
\* KeepIndices taking deleted_rows to count rows from 1
KeepIndicesOneBased(rows, deleted_rows, i) ==
    IF i > Len(rows) - 1 THEN << >>
    ELSE IF ListHas(deleted_rows, i + 1)
      THEN KeepIndicesOneBased(rows, deleted_rows, i + 1)
    ELSE << rows[i + 1] >> \o KeepIndicesOneBased(rows, deleted_rows, i + 1)

RECURSIVE KeepIndicesByPop(_, _, _)
\* KeepIndices dropping, for entry i of deleted_rows and the ones after it in
\* turn, the row now at that position (route_df.drop one entry at a time)
KeepIndicesByPop(rows, deleted_rows, i) ==
    IF i > Len(deleted_rows) - 1 THEN rows
    ELSE LET p == deleted_rows[i + 1]
         IN  KeepIndicesByPop(
                IF p < Len(rows)
                  THEN SubSeq(rows, 1, p) \o SubSeq(rows, p + 2, Len(rows))
                  ELSE rows,
                deleted_rows, i + 1)

RECURSIVE KeepIndices(_, _, _)
\* route_df.iloc[[i for i in range(len(route_df)) if i not in deleted_rows]]
KeepIndices(rows, deleted_rows, i) ==
    IF i > Len(rows) - 1 THEN << >>
    ELSE IF ListHas(deleted_rows, i) THEN KeepIndices(rows, deleted_rows, i + 1)
    ELSE << rows[i + 1] >> \o KeepIndices(rows, deleted_rows, i + 1)

\* route_df.iloc[change_i, change_j] = new_val, both indices in range
SetCell(rows, change_i, change_j, new_val) ==
    LET i == IF change_i < 0 THEN change_i + Len(rows) ELSE change_i
        j == IF change_j < 0 THEN change_j + NumColumns ELSE change_j
    IN  [rows EXCEPT ![i + 1] =
            IF j = 0 THEN [@ EXCEPT !.city = new_val]
            ELSE IF j = 1 THEN [@ EXCEPT !.est_dist = new_val]
            ELSE IF j = 2 THEN [@ EXCEPT !.days_to_city = new_val]
            ELSE [@ EXCEPT !.arrival_date = new_val]]

RECURSIVE ApplyChangesNoShift(_, _, _)
\* ApplyChanges without the "- 1" of line 274
ApplyChangesNoShift(rows, edited_cells, k) ==
    IF k > Len(edited_cells) THEN Returned(rows)
    ELSE LET change_i == edited_cells[k].row
             change_j == edited_cells[k].col
         IN  IF \/ change_i >= Len(rows) \/ change_i < -Len(rows)
                \/ change_j >= NumColumns \/ change_j < -NumColumns
               THEN Raised("IndexError")
               ELSE ApplyChangesNoShift(SetCell(rows, change_i, change_j,
                                                edited_cells[k].val),
                                        edited_cells, k + 1)

RECURSIVE ApplyChanges(_, _, _)
\* the loop of lines 272-276 from entry k of edited_cells on
ApplyChanges(rows, edited_cells, k) ==
    IF k > Len(edited_cells) THEN Returned(rows)
    ELSE LET change_i == edited_cells[k].row
             change_j == edited_cells[k].col - 1
         IN  IF \/ change_i >= Len(rows) \/ change_i < -Len(rows)
                \/ change_j >= NumColumns \/ change_j < -NumColumns
               THEN Raised("IndexError")
               ELSE ApplyChanges(SetCell(rows, change_i, change_j,
                                         edited_cells[k].val),
                                 edited_cells, k + 1)

RECURSIVE ArrivalLoopFromStart(_, _)
\* ArrivalLoop adding the travel days to the start date, not to the
\* arrival at the previous stop
ArrivalLoopFromStart(rows, i) ==
    IF i > Len(rows) - 1 THEN Returned(rows)
    ELSE LET prev == rows[i]
         IN  IF prev.days_to_city.t \notin {"int", "float"}
               THEN Raised("TypeError")
             ELSE IF rows[1].arrival_date.t # "date"
               THEN Raised("TypeError")
             ELSE ArrivalLoopFromStart(
                    [rows EXCEPT ![i + 1].arrival_date =
                        PyDate(rows[1].arrival_date.v
                               + TimedeltaDays(prev.days_to_city))],
                    i + 1)

RECURSIVE ArrivalLoopWrap(_, _)
ArrivalLoopWrap(rows, i) ==
    IF i > Len(rows) - 1 THEN Returned(rows)
    ELSE LET prev == IF i = 0 THEN rows[Len(rows)] ELSE rows[i]
         IN  IF prev.days_to_city.t \notin {"int", "float"}
               THEN Raised("TypeError")
             ELSE IF prev.arrival_date.t # "date"
               THEN Raised("TypeError")
             ELSE ArrivalLoopWrap(
                    [rows EXCEPT ![i + 1].arrival_date =
                        PyDate(prev.arrival_date.v
                               + TimedeltaDays(prev.days_to_city))],
                    i + 1)

\* ArrivalLoop over range(len(route_df)): stop 0 is recomputed too, from
\* iloc[-1], the last stop
ArrivalLoopFromZero(rows, i) == ArrivalLoopWrap(rows, i - 1)

RECURSIVE ArrivalLoop(_, _)
\* the loop of lines 278-279 from i (0-based) on
ArrivalLoop(rows, i) ==
    IF i > Len(rows) - 1 THEN Returned(rows)
    ELSE LET prev == rows[i]
         IN  IF prev.days_to_city.t \notin {"int", "float"}
               THEN Raised("TypeError")   \* timedelta(days = <str>)
             ELSE IF prev.arrival_date.t # "date"
               THEN Raised("TypeError")   \* <not a date> + timedelta
             ELSE ArrivalLoop(
                    [rows EXCEPT ![i + 1].arrival_date =
                        PyDate(prev.arrival_date.v
                               + TimedeltaDays(prev.days_to_city))],
                    i + 1)

\* the three days queried for one stop (lines 284-292)
WindowDays(arrival_date) ==
    [pre |-> FromOrdinal(arrival_date.v - 3),
     on |-> FromOrdinal(arrival_date.v),
     post |-> FromOrdinal(arrival_date.v + 3)]

\* weather_window of lines 294-299 for one stop whose three queries return
WeatherWindow(station_id, arrival_date) ==
    LET d == WindowDays(arrival_date)
        weather_pre == get_historical_dailies(station_id, d.pre.day, d.pre.month).avgs
        weather_on == get_historical_dailies(station_id, d.on.day, d.on.month).avgs
        weather_post == get_historical_dailies(station_id, d.post.day, d.post.month).avgs
    IN  [k \in Targets |->
            "(" \o weather_pre[k] \o ") " \o weather_on[k]
                \o " (" \o weather_post[k] \o ")"]

\* what the body of the loop of lines 282-300 raises for stop i, "" if nothing
WeatherError(rows, normals, i) ==
    IF rows[i].arrival_date.t # "date" THEN "AttributeError"
    ELSE IF rows[i].city.t # "str" THEN "KeyError"
    ELSE IF rows[i].city.v \notin DOMAIN normals THEN "KeyError"
    ELSE LET d == WindowDays(rows[i].arrival_date)
         IN  IF \/ DailiesDateError(d.pre.day, d.pre.month)
                \/ DailiesDateError(d.on.day, d.on.month)
                \/ DailiesDateError(d.post.day, d.post.month)
               THEN "ValueError"
               ELSE ""

\* weather_info[city] after the loop: the window of the last stop of that name
WeatherInfo(rows, normals, city) ==
    LET last == CHOOSE i \in 1..Len(rows) :
                    /\ rows[i].city = city
                    /\ \A k \in (i + 1)..Len(rows) : rows[k].city # city
    IN  WeatherWindow(normals[city.v].StationID, rows[last].arrival_date)

\* a row of route_df with the columns of its weather window w
WeatherRow(row, w) ==
    [city |-> row.city,
     est_dist |-> row.est_dist,
     days_to_city |-> row.days_to_city,
     arrival_date |-> row.arrival_date,
     tavg |-> w["tavg"], tmin |-> w["tmin"],
     tmax |-> w["tmax"], prcp |-> w["prcp"],
     snow |-> w["snow"]]

\* route_df with the columns of weather_info[city] of each row, in the order
\* of route_df
WithWeather(rows, normals) ==
    [i \in 1..Len(rows) |->
        WeatherRow(rows[i], WeatherInfo(rows, normals, rows[i].city))]

RECURSIVE GroupByCity(_)
\* the rows grouped by city, the cities in the order of their first row
GroupByCity(rows) ==
    IF Len(rows) = 0 THEN << >>
    ELSE SelectSeq(rows, LAMBDA r : r.city = Head(rows).city)
         \o GroupByCity(SelectSeq(rows, LAMBDA r : r.city # Head(rows).city))

\* pd.merge(route_df, weather, on = 'city', how = 'inner') of lines 301-302:
\* the frames the installed pandas can return for the merged rows given in
\* the order of route_df. pandas from 2.2 on keeps the order of route_df,
\* pandas before 2.2 groups the rows of one city; the code names no version.
MergeOnCity(merged) == { merged, GroupByCity(merged) }

\* AnnotateWeather that leaves out the stops whose city has no entry in the
\* normals cache, as an inner merge with the weather of the known cities would
AnnotateKnownCities(rows, normals) ==
    IF \E i \in 1..Len(rows) :
          /\ rows[i].city.t = "str" /\ rows[i].city.v \in DOMAIN normals
          /\ WeatherError(rows, normals, i) # ""
      THEN { Raised("ValueError") }
      ELSE { Returned(frame) : frame \in MergeOnCity(WithWeather(
                 SelectSeq(rows, LAMBDA r : r.city.t = "str"
                                            /\ r.city.v \in DOMAIN normals),
                 normals)) }

\* the first stop for which the body of the weather loop raises
FirstWeatherError(rows, normals) ==
    CHOOSE i \in 1..Len(rows) :
        /\ WeatherError(rows, normals, i) # ""
        /\ \A k \in 1..(i - 1) : WeatherError(rows, normals, k) = ""

\* lines 281-302: the weather loop over the stops, then the merge on 'city';
\* the set of the results the call can have
AnnotateWeather(rows, normals) ==
    IF \E i \in 1..Len(rows) : WeatherError(rows, normals, i) # ""
      THEN { Raised(WeatherError(rows, normals,
                                 FirstWeatherError(rows, normals))) }
      ELSE { Returned(frame) :
                frame \in MergeOnCity(WithWeather(rows, normals)) }

\* lines 267-302 for one route of get_route
UpdateRoute(base, normals, edits) ==
    IF base.raised THEN { base }
    ELSE
      LET kept == KeepIndices(base.rows, edits.deleted_rows, 0)
          edited == ApplyChanges(kept, edits.edited_cells, 1)
      IN  IF edited.raised THEN { edited }
          ELSE
            LET dated == ArrivalLoop(edited.rows, 1)
            IN  IF dated.raised THEN { dated }
                ELSE AnnotateWeather(dated.rows, normals)

\* the set of the results the call can have: one, unless two cities are as
\* far from a stop as each other or two stops of the route carry the same city
update_route_table(normals, start_date, start_city, table, edits) ==
    UNION { UpdateRoute(base, normals, edits) :
              base \in get_route(start_date, start_city, table) }

---------------------------------------------------------------------------
(* Loading the data (data_utils.load_data) and the substitutes for missing *)
(* normals (weather_utils.get_normal_substitutes)                          *)

\* column sums of no row at all; n counts the rows
NoRows == [tavg |-> 0, tmin |-> 0, tmax |-> 0, prcp |-> 0, n |-> 0]

\* the column sums acc with one more row
AddRow(acc, row) ==
    [tavg |-> acc.tavg + row.tavg, tmin |-> acc.tmin + row.tmin,
     tmax |-> acc.tmax + row.tmax, prcp |-> acc.prcp + row.prcp,
     n |-> acc.n + 1]

\* the column sums of two frames concatenated
AddSums(acc, frame) ==
    [tavg |-> acc.tavg + frame.tavg, tmin |-> acc.tmin + frame.tmin,
     tmax |-> acc.tmax + frame.tmax, prcp |-> acc.prcp + frame.prcp,
     n |-> acc.n + frame.n]

RECURSIVE SumDaysOfMonth(_, _, _, _, _)
\* column sums, and the number n of rows, of the daily frame of the days
\* first..last of one month of one year
SumDaysOfMonth(station, year, month, first, last) ==
    IF first > last THEN NoRows
    ELSE IF first = last
      THEN AddRow(NoRows, DailyFetch(station, year, month, first))
    ELSE AddSums(
           SumDaysOfMonth(station, year, month, first, (first + last) \div 2),
           SumDaysOfMonth(station, year, month, (first + last) \div 2 + 1, last))

RECURSIVE SumMonthDailies(_, _, _, _)
\* the same sums over the concatenated frames of the years from..to, each
\* from the first day of the month to its last
SumMonthDailies(station, month, from, to) ==
    IF from > to THEN NoRows
    ELSE IF from = to
      THEN IF from \in YearsWithDailies(station)
             THEN SumDaysOfMonth(station, from, month, 1,
                                 DaysInMonth(from, month))
             ELSE NoRows
    ELSE AddSums(
           SumMonthDailies(station, month, from, (from + to) \div 2),
           SumMonthDailies(station, month, (from + to) \div 2 + 1, to))

SetMin(S) == CHOOSE x \in S : \A y \in S : x <= y
SetMax(S) == CHOOSE x \in S : \A y \in S : x >= y

\* lines 115-120: the means of the frame with the column sums given, and the
\* years the frame has rows of
MonthlyAvgs(sums, years) ==
    [tavg |-> RoundHalfEven(sums.tavg, sums.n),
     tmin |-> RoundHalfEven(sums.tmin, sums.n),
     tmax |-> RoundHalfEven(sums.tmax, sums.n),
     prcp |-> RoundHalfEven(sums.prcp, sums.n),
     available_years |-> Cardinality(years),
     min_year_available |-> SetMin(years),
     max_year_available |-> SetMax(years)]

get_monthly_normal_substitutes(station_id, month) ==
    IF QueriedYears \cap YearsWithDailies(station_id) = {}
      THEN [available_years |-> 0]
      ELSE MonthlyAvgs(SumMonthDailies(station_id, month, START_YEAR,
                                       END_YEAR - 1),
                       QueriedYears \cap YearsWithDailies(station_id))

\* f'Only {n} years of weather data available for {city}.'
OnlyYearsWarning(n, city) ==
    "Only " \o ToString(n) \o " years of weather data available for "
        \o city \o "."

\* month_dicts of lines 136-138, computed once for each station the function
\* is called for (load_data calls it for the stations without normals)
MonthDicts ==
    [s \in StationsWithoutNormals |->
        [m \in 1..12 |-> get_monthly_normal_substitutes(s, m)]]

\* pd.DataFrame(month_dicts).T.to_dict(): column -> month -> value
MonthsDict(month_dicts) ==
    [c \in UNION { DOMAIN month_dicts[m] : m \in 1..12 } |->
        [m \in 1..12 |-> IF c \in DOMAIN month_dicts[m]
                           THEN month_dicts[m][c] ELSE "nan"]]

\* lines 140-144: the warning for the fewest years any month has data of
SubstitutesWarning(fewest, city) ==
    IF fewest = 0 THEN ""            \* printed, not returned
    ELSE IF fewest < 10 THEN OnlyYearsWarning(fewest, city)
    ELSE ""

\* line 145 for the months_dict given
SubstitutesOf(months_dict, city) ==
    [months_dict |-> months_dict,
     st_warning |-> SubstitutesWarning(
         SetMin({ months_dict["available_years"][m] : m \in 1..12 }), city)]

get_normal_substitutes(city, station_id) ==
    SubstitutesOf(MonthsDict(MonthDicts[station_id]), city)

RECURSIVE ConcatGeodata(_, _)
\* lines 175-187: the rows of each geodata file whose city the catalog lists
\* under that country, the files in the order os.listdir gives them
ConcatGeodata(files, catalog) ==
    IF Len(files) = 0 THEN << >>
    ELSE SelectSeq(Geodata(Head(files)),
                   LAMBDA r : ListHas(catalog[Head(files)], r.city))
         \o ConcatGeodata(Tail(files), catalog)

\* city_normals, remove_cities and st_warnings of line 188-190
NothingLoaded ==
    [city_normals |-> [k \in {} |-> get_normals_per_city(Row("", "", 0, 0))],
     remove_cities |-> {}, st_warnings |-> << >>]

\* lines 196-200 for a city without normals: subs is what
\* get_normal_substitutes returned for it
LoadSubstitutes(acc, city, rec, subs) ==
    IF Cardinality(DOMAIN subs.months_dict) = 1
      THEN [city_normals |-> (city :> rec) @@ acc.city_normals,
            remove_cities |-> acc.remove_cities \cup {city},
            st_warnings |-> Append(acc.st_warnings, subs.st_warning)]
      ELSE [city_normals |->
                (city :> [rec EXCEPT !.Normals = subs.months_dict["tavg"]])
                    @@ acc.city_normals,
            remove_cities |-> acc.remove_cities,
            st_warnings |-> Append(acc.st_warnings, subs.st_warning)]

\* lines 193-200 for a city: rec is what get_normals_per_city returned for it
LoadCity(acc, city, rec) ==
    IF Len(rec.Normals) = 0
      THEN LoadSubstitutes(acc, city, rec,
                           get_normal_substitutes(city, rec.StationID))
      ELSE [acc EXCEPT !.city_normals = (city :> rec) @@ acc.city_normals]

RECURSIVE LoadLoop(_, _, _)
\* the loop of lines 191-200 from row i (1-based) on
LoadLoop(table, i, acc) ==
    IF i > Len(table) THEN acc
    ELSE LoadLoop(table, i + 1,
                  LoadCity(acc, table[i].city, get_normals_per_city(table[i])))

\* lines 201-203 for the table of line 187 and what the loop left
LoadedData(table, loaded) ==
    [panam_cities |->
        SelectSeq(table, LAMBDA r : r.city \notin loaded.remove_cities),
     city_normals |-> loaded.city_normals,
     st_warnings |-> SelectSeq(loaded.st_warnings, LAMBDA w : w # "")]

\* lines 188-203 for the table of line 187
LoadTable(table) == LoadedData(table, LoadLoop(table, 1, NothingLoaded))

\* load_data for the catalog read from cities.pickle; files is os.listdir
\* without the extensions
load_data(catalog, files) == LoadTable(ConcatGeodata(files, catalog))

---------------------------------------------------------------------------
(* Specification of the catalog: any sequence of add_city / remove_city *)

NoCall == CallRec("none", "", "", "ok", FALSE)
NoEdits == [deleted_rows |-> << >>, edited_cells |-> << >>]
NoResult == [state |-> "none", raised |-> FALSE, error |-> "", rows |-> << >>]

EmptyCatalog == [c \in CatalogCountries |-> << >>]

InitCatalog ==
    /\ cities = EmptyCatalog
    /\ cities_pickle = PickleDump(EmptyCatalog)
    /\ panam_cities = << >>
    /\ city_normals = [k \in {} |-> get_normals_per_city(Row("", "", 0, 0))]
    /\ st_warnings = << >>
    /\ call = NoCall
    /\ route_start_date = 0
    /\ route_start_city = ""
    /\ route_table_edits = NoEdits
    /\ route_df = NoResult
    /\ final_route_df = NoResult

NextCatalog ==
    \E country \in Countries, city \in CityNames :
        \/ add_city(country, city)
        \/ remove_city(country, city)

SpecCatalog == InitCatalog /\ [][NextCatalog]_vars

---------------------------------------------------------------------------
(* Specification of route planning: the page of main.py after load_data *)

\* os.listdir('Geodata') gives the files in arbitrary order
GeodataListings == { << "Peru", "Chile" >>, << "Chile", "Peru" >> }

\* the rows of the geodata files
GeodataRows ==
    UNION { { Geodata(c)[i] : i \in 1..Len(Geodata(c)) } : c \in CatalogCountries }

\* rows load_data keeps without substituting normals: those whose station
\* has normals; the catalogs of the route specification list no other city
RoutableRows ==
    { r \in GeodataRows : Len(get_normals_per_city(r).Normals) > 0 }

RECURSIVE NamesOf(_)
NamesOf(table) ==
    IF Len(table) = 0 THEN << >> ELSE << Head(table).city >> \o NamesOf(Tail(table))

\* the catalog that lists, under each country, the cities of the rows S
LoadedCatalog(S) ==
    [c \in CatalogCountries |->
        NamesOf(SelectSeq(Geodata(c), LAMBDA r : r \in S))]

\* panam_cities of load_data for a catalog listing the cities of S, the
\* geodata files read in the order files
LoadedTable(S, files) == ConcatGeodata(files, LoadedCatalog(S))

\* city_normals of load_data: a later row of the same city name overwrites
LoadedNormals(table) ==
    [k \in { table[i].city : i \in 1..Len(table) } |->
        LET last == CHOOSE i \in 1..Len(table) :
                        /\ table[i].city = k
                        /\ \A m \in (i + 1)..Len(table) : table[m].city # k
        IN  get_normals_per_city(table[last])]

\* number of columns the data editor shows besides the index
NumEditorColumns == 3

\* start dates offered: 2023-01-01 (the default) and 2024-02-24
StartDates == { PyDate(738521), PyDate(738940) }

\* values a cell edit can carry: integers, a float (1.5), a string
EditValues == { PyInt(2), PyInt(3), PyFloat(15), PyStr("C") }

InitRoute ==
    \E S \in SUBSET RoutableRows, files \in GeodataListings :
        /\ Cardinality(S) \in 1..MaxStops
        /\ panam_cities = LoadedTable(S, files)
        /\ cities = LoadedCatalog(S)
        /\ cities_pickle = PickleDump(LoadedCatalog(S))
        /\ city_normals = LoadedNormals(LoadedTable(S, files))
        /\ st_warnings = << >>
        /\ call = NoCall
        /\ route_start_date \in StartDates
        /\ route_start_city \in { r.city : r \in S } \cup {"Z"}
        /\ route_table_edits = NoEdits
        /\ route_df = NoResult
        /\ final_route_df = NoResult

\* main.py line 95
GetRoute ==
    /\ route_df.state = "none"
    /\ route_df' \in get_route(route_start_date, route_start_city, panam_cities)
    /\ UNCHANGED <<catalogVars, route_start_date, route_start_city,
                   route_table_edits, final_route_df>>

\* key a of edited_cells comes before key b
KeyBefore(a, b) == a.row < b.row \/ (a.row = b.row /\ a.col < b.col)

RECURSIVE InsertIndex(_, _)
InsertIndex(list, x) ==
    IF Len(list) = 0 THEN << x >>
    ELSE IF x < Head(list) THEN << x >> \o list
    ELSE << Head(list) >> \o InsertIndex(Tail(list), x)

RECURSIVE InsertEdit(_, _)
InsertEdit(list, x) ==
    IF Len(list) = 0 THEN << x >>
    ELSE IF KeyBefore(x, Head(list)) THEN << x >> \o list
    ELSE << Head(list) >> \o InsertEdit(Tail(list), x)

\* The user deletes row i of the table the data editor shows. The code only
\* asks whether an index is in deleted_rows, so the list is kept ascending.
DeleteRow(i) ==
    /\ route_df.state = "df" /\ ~route_df.raised
    /\ i < Len(route_df.rows)
    /\ ~ListHas(route_table_edits.deleted_rows, i)
    /\ route_table_edits' =
          [route_table_edits EXCEPT !.deleted_rows =
              InsertIndex(@, i)]
    /\ final_route_df' = NoResult
    /\ UNCHANGED <<catalogVars, route_start_date, route_start_city, route_df>>

\* The user types val into the cell (row, col) of the data editor; col 0 is
\* the index. edited_cells has one entry per cell; its keys name different
\* cells of the table, so the entries are kept in key order.
EditCell(row, col, val) ==
    /\ route_df.state = "df" /\ ~route_df.raised
    /\ row < Len(route_df.rows)
    /\ Len(route_table_edits.edited_cells) < MaxEdits
    /\ \A k \in 1..Len(route_table_edits.edited_cells) :
          ~(route_table_edits.edited_cells[k].row = row
            /\ route_table_edits.edited_cells[k].col = col)
    /\ route_table_edits' =
          [route_table_edits EXCEPT !.edited_cells =
              InsertEdit(@, Edit(row, col, val))]
    /\ final_route_df' = NoResult
    /\ UNCHANGED <<catalogVars, route_start_date, route_start_city, route_df>>

\* main.py line 106: the button 'Update table'
UpdateRouteTable ==
    /\ route_df.state = "df"
    /\ final_route_df.state = "none"
    /\ final_route_df' \in update_route_table(city_normals, route_start_date,
                              route_start_city, panam_cities, route_table_edits)
    /\ UNCHANGED <<catalogVars, route_start_date, route_start_city,
                   route_table_edits, route_df>>

NextRoute ==
    \/ GetRoute
    \/ \E i \in 0..(MaxStops - 1) : DeleteRow(i)
    \/ \E row \in 0..(MaxStops - 1), col \in 0..NumEditorColumns,
          val \in EditValues : EditCell(row, col, val)
    \/ UpdateRouteTable

SpecRoute == InitRoute /\ [][NextRoute]_vars

---------------------------------------------------------------------------
(* Specification of the editor: update_route_table on the route of one     *)
(* table, for any session state 'route_table_edits' within the bounds,     *)
(* also one the data editor itself would not produce (an index listed      *)
(* twice, or one that is no position of the route)                         *)

\* the table of the editor specification: the routable cities of Peru
EditorTable == LoadedTable({ r \in RoutableRows : r.country = "Peru" },
                           << "Peru", "Chile" >>)
EditorStarts == { "A", "C" }
\* key columns of the cell edits drawn: 1 is 'city', 3 is 'days_to_city'
EditorColumns == { 1, 3 }
EditorValues == { PyInt(2), PyStr("C") }

InitEditor ==
    /\ panam_cities = EditorTable
    /\ cities = [c \in CatalogCountries |->
                   NamesOf(SelectSeq(EditorTable, LAMBDA r : r.country = c))]
    /\ cities_pickle = PickleDump(cities)
    /\ city_normals = LoadedNormals(EditorTable)
    /\ st_warnings = << >>
    /\ call = NoCall
    /\ route_start_date \in StartDates
    /\ route_start_city \in EditorStarts
    /\ route_table_edits = NoEdits
    /\ route_df = NoResult
    /\ final_route_df = NoResult

\* deleted_rows gets the entry i, whether or not it is listed already and
\* whether or not the route has a row i; the code only asks whether an index
\* is in the list, so the list is kept ascending
DeleteIndex(i) ==
    /\ route_df.state = "df" /\ ~route_df.raised
    /\ Len(route_table_edits.deleted_rows) < MaxDeleted
    /\ route_table_edits' =
          [route_table_edits EXCEPT !.deleted_rows = InsertIndex(@, i)]
    /\ final_route_df' = NoResult
    /\ UNCHANGED <<catalogVars, route_start_date, route_start_city, route_df>>

\* EditCell with the bound of this specification
EditMoreCells(row, col, val) ==
    /\ route_df.state = "df" /\ ~route_df.raised
    /\ row < Len(route_df.rows)
    /\ Len(route_table_edits.edited_cells) < MaxCellEdits
    /\ \A k \in 1..Len(route_table_edits.edited_cells) :
          ~(route_table_edits.edited_cells[k].row = row
            /\ route_table_edits.edited_cells[k].col = col)
    /\ route_table_edits' =
          [route_table_edits EXCEPT !.edited_cells =
              InsertEdit(@, Edit(row, col, val))]
    /\ final_route_df' = NoResult
    /\ UNCHANGED <<catalogVars, route_start_date, route_start_city, route_df>>

NextEditor ==
    \/ GetRoute
    \/ \E i \in 0..MaxStops : DeleteIndex(i)
    \/ \E row \in 0..(MaxStops - 1), col \in EditorColumns,
          val \in EditorValues : EditMoreCells(row, col, val)
    \/ UpdateRouteTable

SpecEditor == InitEditor /\ [][NextEditor]_vars

---------------------------------------------------------------------------
(* Specification of loading: load_data for any catalog in cities.pickle *)

\* the names a catalog may list, in the order the lists below keep
LoadNames == << "A", "B", "C", "N", "M", "Z" >>

InitLoad ==
    \E P \in SUBSET { "A", "B", "C", "N", "M", "Z" }, C \in SUBSET { "B" } :
        /\ cities = [c \in CatalogCountries |->
                       SelectSeq(LoadNames, LAMBDA n :
                           IF c = "Peru" THEN n \in P ELSE n \in C)]
        /\ cities_pickle = PickleDump(cities)
        /\ panam_cities = << >>
        /\ city_normals = [k \in {} |-> get_normals_per_city(Row("", "", 0, 0))]
        /\ st_warnings = << >>
        /\ call = NoCall
        /\ route_start_date = 0
        /\ route_start_city = ""
        /\ route_table_edits = NoEdits
        /\ route_df = NoResult
        /\ final_route_df = NoResult

\* main.py line 27
LoadData(files) ==
    /\ call.op = "none"
    /\ \E loaded \in { load_data(cities, files) } :
           /\ panam_cities' = loaded.panam_cities
           /\ city_normals' = loaded.city_normals
           /\ st_warnings' = loaded.st_warnings
    /\ call' = CallRec("load_data", "", "", "ok", FALSE)
    /\ UNCHANGED <<cities, cities_pickle, routeVars>>

NextLoad == \E files \in GeodataListings : LoadData(files)

SpecLoad == InitLoad /\ [][NextLoad]_vars

---------------------------------------------------------------------------
(* Specification of the route builder: get_route for any coordinate table  *)
(* of up to MaxTourStops cities of one country on the equator              *)

\* city names of the tables, in table order
TourNames == << "A", "B", "C", "D", "E" >>
\* longitudes of the cities; every station near them has normals
TourLngs == { 0, 1, 4, 6, 10 }

\* the table of the cities of S at the longitudes lng
TourTable(S, lng) ==
    LET names == SelectSeq(TourNames, LAMBDA n : n \in S)
    IN  [k \in 1..Len(names) |-> Row("Peru", names[k], 0, lng[names[k]])]

InitTour ==
    \E S \in SUBSET { TourNames[k] : k \in 1..Len(TourNames) } :
        /\ Cardinality(S) \in 1..MaxTourStops
        /\ \E lng \in [S -> TourLngs] :
              /\ panam_cities = TourTable(S, lng)
              /\ city_normals = LoadedNormals(TourTable(S, lng))
        /\ cities = [c \in CatalogCountries |->
                       IF c = "Peru" THEN SelectSeq(TourNames, LAMBDA n : n \in S)
                       ELSE << >>]
        /\ cities_pickle = PickleDump(cities)
        /\ st_warnings = << >>
        /\ call = NoCall
        /\ route_start_date \in StartDates
        /\ route_start_city \in S \cup {"Z"}
        /\ route_table_edits = NoEdits
        /\ route_df = NoResult
        /\ final_route_df = NoResult

NextTour == GetRoute

SpecTour == InitTour /\ [][NextTour]_vars

---------------------------------------------------------------------------
(* Specification of reloading: a caller of data_utils that has loaded the   *)
(* data calls add_city and load_data, on an empty cache, in any order       *)

\* names of the catalogs the caller starts from, in the order the lists keep
ReloadNames == << "A", "C", "M" >>
\* largest catalog the caller starts from
MaxReloadCatalog == 2

\* the cities of Geodata/<country>.csv: the names add_info_new_city finds a
\* row for
GeodataCities(country) ==
    { Geodata(country)[i].city : i \in 1..Len(Geodata(country)) }

\* the data as load_data returns them for the catalog of cities.pickle
InitReload ==
    \E P \in SUBSET { "A", "C", "M" }, C \in SUBSET { "B" },
       files \in GeodataListings :
        /\ Cardinality(P) + Cardinality(C) <= MaxReloadCatalog
        /\ cities = [c \in CatalogCountries |->
                       IF c = "Peru" THEN SelectSeq(ReloadNames, LAMBDA n : n \in P)
                       ELSE SelectSeq(<< "B" >>, LAMBDA n : n \in C)]
        /\ cities_pickle = PickleDump(cities)
        /\ \E loaded \in { load_data(cities, files) } :
               /\ panam_cities = loaded.panam_cities
               /\ city_normals = loaded.city_normals
               /\ st_warnings = loaded.st_warnings
        /\ call = NoCall
        /\ route_start_date = 0
        /\ route_start_city = ""
        /\ route_table_edits = NoEdits
        /\ route_df = NoResult
        /\ final_route_df = NoResult

\* load_data() with nothing cached for it: the body of lines 172-203 runs on
\* data_utils.cities, the dictionary add_city has appended to
ReloadData(files) ==
    /\ \E loaded \in { load_data(cities, files) } :
           /\ panam_cities' = loaded.panam_cities
           /\ city_normals' = loaded.city_normals
           /\ st_warnings' = loaded.st_warnings
    /\ call' = CallRec("load_data", "", "", "ok", FALSE)
    /\ UNCHANGED <<cities, cities_pickle, routeVars>>

NextReload ==
    \/ \E country \in CatalogCountries :
           \E city \in GeodataCities(country) : add_city(country, city)
    \/ \E files \in GeodataListings : ReloadData(files)

SpecReload == InitReload /\ [][NextReload]_vars

---------------------------------------------------------------------------
(* Claims about the City Catalog Maintainer, under SpecCatalog *)

TableHasCity(table, city) == \E i \in 1..Len(table) : table[i].city = city

\* every row has a normals entry, and every normals entry has a row or is
\* that of a city left out of the table because its normals are empty
CatalogConsistent(table, normals) ==
    /\ \A i \in 1..Len(table) : table[i].city \in DOMAIN normals
    /\ \A k \in DOMAIN normals :
          TableHasCity(table, k) \/ Len(normals[k].Normals) = 0

\* the catalog, its file, the table and the cache agree: every listed city
\* has its row or was left out for empty normals, every row is listed
MutuallyConsistent ==
    /\ CatalogConsistent(panam_cities, city_normals)
    /\ cities_pickle = PickleDump(cities)
    /\ \A i \in 1..Len(panam_cities) :
          ListHas(cities[panam_cities[i].country], panam_cities[i].city)
    /\ \A c \in DOMAIN cities : \A n \in 1..Len(cities[c]) :
          \/ \E i \in 1..Len(panam_cities) :
                /\ panam_cities[i].country = c
                /\ panam_cities[i].city = cities[c][n]
          \/ /\ cities[c][n] \in DOMAIN city_normals
             /\ Len(city_normals[cities[c][n]].Normals) = 0

\* C4: a call of add_city or remove_city that returns, made in a state where
\* catalog, coordinate table and normals cache are mutually consistent,
\* leaves every row of the table with a normals entry and every normals
\* entry with a row or with empty normals (so this holds after any sequence
\* of calls), also when cities of different countries share a name.
C4_CallsKeepTableAndNormalsConsistent ==
    [][(MutuallyConsistent /\ call'.status = "ok")
          => CatalogConsistent(panam_cities', city_normals')]_vars

\* C5: a call of add_city or remove_city that fails leaves the persisted
\* catalog, the in-memory catalog, the coordinate table and the normals
\* cache as they were before the call.
C5_FailedCallChangesNothing ==
    [][call'.status = "error"
          => UNCHANGED <<cities_pickle, cities, panam_cities, city_normals>>]_vars

\* C10: after remove_city(country, city) has returned, neither the persisted
\* nor the in-memory catalog lists city under country, the normals cache has
\* no entry for city, and the coordinate table has no row for (country, city).
C10_RemovedCityIsGoneEverywhere ==
    (call.op = "remove_city" /\ call.status = "ok") =>
        /\ ~ListHas(cities[call.country], call.city)
        /\ ~cities_pickle.truncated
        /\ ~ListHas(cities_pickle.data[call.country], call.city)
        /\ call.city \notin DOMAIN city_normals
        /\ \A i \in 1..Len(panam_cities) :
              ~(panam_cities[i].country = call.country
                /\ panam_cities[i].city = call.city)

---------------------------------------------------------------------------
(* Claims about the Route Builder and the Route Table Editor, under SpecRoute *)

RouteComputed == route_df.state = "df"
UpdateCalled == final_route_df.state = "df"
FinalReturned == UpdateCalled /\ ~final_route_df.raised

TableUniqueByCountryAndCity ==
    \A i, j \in 1..Len(panam_cities) :
        (i # j) => ~(panam_cities[i].country = panam_cities[j].country
                     /\ panam_cities[i].city = panam_cities[j].city)

\* C1: for a coordinate table unique by (country, city) and a start city of
\* that table, get_route returns a route that starts with the start city and
\* holds every city of the table exactly once.
C1_RouteHoldsEveryCityOnce ==
    (RouteComputed /\ TableUniqueByCountryAndCity
       /\ TableHasCity(panam_cities, route_start_city)) =>
        /\ ~route_df.raised
        /\ Len(route_df.rows) = Len(panam_cities)
        /\ route_df.rows[1].city = PyStr(route_start_city)
        /\ \A i \in 1..Len(panam_cities) :
              Cardinality({ k \in 1..Len(route_df.rows) :
                              route_df.rows[k].city = PyStr(panam_cities[i].city) })
                = Cardinality({ k \in 1..Len(panam_cities) :
                              panam_cities[k].city = panam_cities[i].city })

\* C7: when the start city is not in the coordinate table, get_route fails
\* and returns no route.
C7_AbsentStartCityFails ==
    (RouteComputed /\ ~TableHasCity(panam_cities, route_start_city))
        => route_df.raised

\* positions of the base route (0-based) that deleted_rows does not list
KeptPositions ==
    { p \in 0..(Len(route_df.rows) - 1) :
        \A k \in 1..Len(route_table_edits.deleted_rows) :
            route_table_edits.deleted_rows[k] # p }

\* the stop of the base route that is the k-th (1-based) one left
BaseStopLeft(k) ==
    route_df.rows[1 + CHOOSE p \in KeptPositions :
                        Cardinality({ q \in KeptPositions : q < p }) = k - 1]

FinalRows == final_route_df.rows
Cells == route_table_edits.edited_cells

\* C2: in every finalized route update_route_table returns, whatever rows
\* were deleted and whatever cells but those of the city column were edited,
\* every stop after the first arrives travel_days_to_next of its predecessor
\* (an integer) days after its predecessor.
C2_ArrivalIsPreviousArrivalPlusTravelDays ==
    (FinalReturned /\ \A e \in 1..Len(Cells) : Cells[e].col # 1) =>
        \A i \in 2..Len(FinalRows) :
            FinalRows[i - 1].days_to_city.t = "int" =>
                /\ FinalRows[i - 1].arrival_date.t = "date"
                /\ FinalRows[i].arrival_date =
                      PyDate(FinalRows[i - 1].arrival_date.v
                             + FinalRows[i - 1].days_to_city.v)

\* a 3-stop route whose middle stop was given 3 travel days
C2_Witness ==
    /\ FinalReturned
    /\ Len(FinalRows) = 3
    /\ FinalRows[2].days_to_city = PyInt(3)
    /\ FinalRows[2].arrival_date = route_start_date
    /\ FinalRows[3].arrival_date = PyDate(route_start_date.v + 3)

RECURSIVE TravelDaysBefore(_, _)
\* sum of the integer travel days of the stops before stop k
TravelDaysBefore(rows, k) ==
    IF k <= 1 THEN 0
    ELSE rows[k - 1].days_to_city.v + TravelDaysBefore(rows, k - 1)

\* C3: the stops of the finalized route are the stops of the base route at
\* the positions deleted_rows does not list, in base order (no cell edit
\* addressing the city column), and each arrives at the start date plus the
\* travel days of the stops left before it.
C3_DeletionKeepsTheOtherStopsInOrder ==
    (FinalReturned /\ \A e \in 1..Len(Cells) : Cells[e].col # 1) =>
        /\ Len(FinalRows) = Cardinality(KeptPositions)
        /\ \A k \in 1..Len(FinalRows) :
              /\ FinalRows[k].city = BaseStopLeft(k).city
              /\ (\A m \in 1..(k - 1) : FinalRows[m].days_to_city.t = "int")
                    => FinalRows[k].arrival_date =
                          PyDate(route_start_date.v + TravelDaysBefore(FinalRows, k))

\* the middle row of a 3-stop route deleted, 2 travel days on the first stop
C3_Witness ==
    /\ FinalReturned
    /\ Len(route_df.rows) = 3
    /\ route_table_edits.deleted_rows = << 1 >>
    /\ Len(FinalRows) = 2
    /\ FinalRows[1].days_to_city = PyInt(2)
    /\ FinalRows[2].city = route_df.rows[3].city
    /\ FinalRows[2].arrival_date = PyDate(route_start_date.v + 2)

\* C6: when an entry of edited_cells names a row outside the route left after
\* deletion, a column outside the route table, or a travel time that is no
\* integer, update_route_table fails and returns no table.
C6_InvalidEditFails ==
    (UpdateCalled /\ \E e \in 1..Len(Cells) :
        \/ Cells[e].row >= Cardinality(KeptPositions)
        \/ Cells[e].col - 1 \notin 0..(NumColumns - 1)
        \/ (Cells[e].col - 1 = 2 /\ Cells[e].val.t # "int"))
      => final_route_df.raised

\* C8: in every finalized route update_route_table returns, the first stop
\* arrives on the start date.
C8_FirstStopArrivesOnStartDate ==
    (FinalReturned /\ Len(FinalRows) >= 1)
        => FinalRows[1].arrival_date = route_start_date

\* the first row deleted and travel days set on the stop that is now first
C8_Witness ==
    /\ FinalReturned
    /\ ListHas(route_table_edits.deleted_rows, 0)
    /\ Len(FinalRows) >= 2
    /\ FinalRows[1].days_to_city = PyInt(3)
    /\ FinalRows[1].arrival_date = route_start_date
    /\ FinalRows[2].arrival_date = PyDate(route_start_date.v + 3)

\* every entry of edited_cells names column col; each sets the travel days of
\* the stop at its row after deletion, and city, distance display and the
\* travel days of the stops no entry names are those of the base route
EditsOfColumnSetTravelDaysOnly(col) ==
    (FinalReturned /\ Len(Cells) >= 1
       /\ \A e \in 1..Len(Cells) : Cells[e].col = col) =>
        /\ Len(FinalRows) = Cardinality(KeptPositions)
        /\ \A e \in 1..Len(Cells) :
              /\ Cells[e].row + 1 \in 1..Len(FinalRows)
              /\ FinalRows[Cells[e].row + 1].days_to_city = Cells[e].val
        /\ \A k \in 1..Len(FinalRows) :
              /\ FinalRows[k].city = BaseStopLeft(k).city
              /\ FinalRows[k].est_dist = BaseStopLeft(k).est_dist
              /\ (\A e \in 1..Len(Cells) : Cells[e].row + 1 # k)
                    => FinalRows[k].days_to_city = BaseStopLeft(k).days_to_city

\* C9 as stated: an entry of edited_cells for (row r, column 2) sets the
\* travel days of the stop at position r after deletion and leaves city,
\* distance display and the other stops' travel days unchanged.
C9_EditOfColumn2SetsTravelDays == EditsOfColumnSetTravelDaysOnly(2)

\* C9 amended: an entry of edited_cells whose key names column 3 (the data
\* editor counts the index as column 0; the code subtracts 1) sets the travel
\* days of the stop at position r after deletion and leaves city, distance
\* display and the other stops' travel days unchanged.
C9_EditOfColumn3SetsTravelDays == EditsOfColumnSetTravelDaysOnly(3)

\* the first row deleted, then row 1 of what is left given 2 travel days
C9_Witness ==
    /\ FinalReturned
    /\ route_table_edits.deleted_rows = << 0 >>
    /\ Cells = << Edit(1, 3, PyInt(2)) >>
    /\ Len(FinalRows) = 2
    /\ FinalRows[2].days_to_city = PyInt(2)
    /\ FinalRows[1].days_to_city = PyInt(0)

---------------------------------------------------------------------------
(* Further claims about the City Catalog Maintainer, under SpecCatalog *)

\* C11: a call of add_city that returns appends the city to the catalog and
\* its file; when the normals fetched for the city are empty the coordinate
\* table is left as it was, it holds no row for the city, and a warning is
\* raised; when they are not empty exactly one row, that of the city, is
\* added at the end of the table and no warning is raised.
C11_AddCityWithEmptyNormalsAddsNoRow ==
    [][(call'.op = "add_city" /\ call'.status = "ok") =>
          LET c == call'.country
              n == call'.city
          IN  /\ cities' = [cities EXCEPT ![c] = Append(@, n)]
              /\ cities_pickle' = PickleDump(cities')
              /\ n \in DOMAIN city_normals'
              /\ IF Len(city_normals'[n].Normals) = 0
                    THEN /\ panam_cities' = panam_cities
                         /\ \A i \in 1..Len(panam_cities') :
                               ~(panam_cities'[i].country = c
                                 /\ panam_cities'[i].city = n)
                         /\ call'.warning
                    ELSE /\ Len(panam_cities') = Len(panam_cities) + 1
                         /\ SubSeq(panam_cities', 1, Len(panam_cities))
                               = panam_cities
                         /\ panam_cities'[Len(panam_cities')].country = c
                         /\ panam_cities'[Len(panam_cities')].city = n
                         /\ ~call'.warning]_vars

\* N, whose station has no normals, was added after a city that has them
C11_Witness ==
    /\ call = CallRec("add_city", "Peru", "N", "ok", TRUE)
    /\ ListHas(cities["Peru"], "N")
    /\ Len(panam_cities) >= 1
    /\ ~TableHasCity(panam_cities, "N")
    /\ "N" \in DOMAIN city_normals

---------------------------------------------------------------------------
(* Claims about the Weather Window Annotator, under SpecRoute *)

\* the route update_route_table hands to its weather loop: the base route
\* after deletion, cell edits and the arrival dates (lines 264-279)
RouteBeforeWeather ==
    LET kept == KeepIndices(route_df.rows, route_table_edits.deleted_rows, 0)
        edited == ApplyChanges(kept, Cells, 1)
    IN  IF route_df.raised \/ edited.raised THEN Raised("")
        ELSE ArrivalLoop(edited.rows, 1)

\* C12: when the route left after deletion, cell edits and arrival dates holds
\* a stop whose city has no entry in the normals cache, update_route_table
\* fails and returns no annotated route.
C12_UnknownCityFails ==
    (UpdateCalled /\ ~RouteBeforeWeather.raised
       /\ \E i \in 1..Len(RouteBeforeWeather.rows) :
             \/ RouteBeforeWeather.rows[i].city.t # "str"
             \/ RouteBeforeWeather.rows[i].city.v \notin DOMAIN city_normals)
      => final_route_df.raised

\* a route that starts at a city the cache does not know, nothing deleted
C12_Witness ==
    /\ UpdateCalled
    /\ route_start_city \notin DOMAIN city_normals
    /\ route_table_edits = NoEdits
    /\ Len(route_df.rows) >= 2
    /\ final_route_df = Raised("KeyError")

---------------------------------------------------------------------------
(* Claims about the annotated route and about deletion, under SpecEditor *)

\* the weather string of variable k for a stop of this city and arrival date:
\* the three values of the station of the city, at the day and month of the
\* arrival date less 3 days, of the arrival date, and of it plus 3 days
WindowOfStop(city, arrival_date, k) ==
    LET station == city_normals[city.v].StationID
        pre == FromOrdinal(arrival_date.v - 3)
        on == FromOrdinal(arrival_date.v)
        post == FromOrdinal(arrival_date.v + 3)
    IN  "(" \o get_historical_dailies(station, pre.day, pre.month).avgs[k]
        \o ") " \o get_historical_dailies(station, on.day, on.month).avgs[k]
        \o " (" \o get_historical_dailies(station, post.day, post.month).avgs[k]
        \o ")"

\* C13: in every annotated route update_route_table returns, the weather
\* string of every stop and every variable is "(pre) on (post)" with the
\* values of the stop's station at the day and month of the stop's arrival
\* date less 3 days, of that date, and of that date plus 3 days.
C13_WeatherStringIsWindowOfArrival ==
    FinalReturned =>
        \A i \in 1..Len(FinalRows) : \A k \in Targets :
            FinalRows[i][k] =
                WindowOfStop(FinalRows[i].city, FinalRows[i].arrival_date, k)

\* the positions of the base route that deleted_rows lists, each once
PositionsListed ==
    SelectSeq([p \in 1..Len(route_df.rows) |-> p - 1],
              LAMBDA x : ListHas(route_table_edits.deleted_rows, x))

\* C14: deleted_rows listing an index twice, or an index that is no position
\* of the base route, gives what update_route_table gives for the list of the
\* positions it names, each once: the same route, or the same failure of a
\* later step; the deletion itself never fails.
C14_DeletionIgnoresRepeatedAndAbsentIndices ==
    UpdateCalled =>
        /\ final_route_df \in
              update_route_table(city_normals, route_start_date,
                  route_start_city, panam_cities,
                  [route_table_edits EXCEPT !.deleted_rows = PositionsListed])
        /\ Len(Cells) = 0 => FinalReturned

\* index 1 listed twice and index 3, which a 3-stop route does not have
C14_Witness ==
    /\ FinalReturned
    /\ Len(route_df.rows) = 3
    /\ route_table_edits.deleted_rows = << 1, 1, 3 >>
    /\ Len(FinalRows) = 2
    /\ FinalRows[1].city = route_df.rows[1].city
    /\ FinalRows[2].city = route_df.rows[3].city

---------------------------------------------------------------------------
(* Claims about loading, under SpecLoad *)

\* the catalog lists city under country, the geodata of the country has it,
\* and its station has neither normals nor a year of daily data in any month
ListedWithoutAnyData(country, city) ==
    /\ ListHas(cities[country], city)
    /\ \E i \in 1..Len(Geodata(country)) :
          /\ Geodata(country)[i].city = city
          /\ LET station == NearestStation(Geodata(country)[i].lat,
                                            Geodata(country)[i].lng)
             IN  /\ Len(FetchNormalsTavg(station)) = 0
                 /\ \A m \in 1..12 :
                       get_monthly_normal_substitutes(station, m).available_years = 0

\* C15: after load_data, a catalog city whose station has no normals and no
\* year of daily data in any month has no row in the coordinate table, and the
\* returned warnings hold a warning that names the city.
C15_CityWithoutDataIsLeftOutWithWarning ==
    (call.op = "load_data") =>
        \A country \in CatalogCountries, city \in DOMAIN city_normals :
            ListedWithoutAnyData(country, city) =>
                /\ ~TableHasCity(panam_cities, city)
                /\ \E k \in 1..Len(st_warnings) :
                      \E n \in 0..Cardinality(QueriedYears) :
                          st_warnings[k] = OnlyYearsWarning(n, city)

---------------------------------------------------------------------------
(* Claims about the Route Builder, under SpecTour *)

RouteReturned == RouteComputed /\ ~route_df.raised
StartInTable == TableHasCity(panam_cities, route_start_city)

\* the row of the coordinate table of the city of stop i of the route
RowOfStop(i) ==
    panam_cities[CHOOSE k \in 1..Len(panam_cities) :
                    PyStr(panam_cities[k].city) = route_df.rows[i].city]

\* the rows of the cities that are not among the first i stops
RowsNotVisited(i) ==
    { panam_cities[k] : k \in { m \in 1..Len(panam_cities) :
        \A j \in 1..i : route_df.rows[j].city # PyStr(panam_cities[m].city) } }

\* C16: in every route get_route returns for a start city of the table, each
\* stop after the first is a city not visited before whose distance from the
\* stop before it is the least among the cities not visited before.
C16_NextStopIsNearestToCurrentStop ==
    (RouteReturned /\ StartInTable) =>
        \A i \in 1..(Len(route_df.rows) - 1) :
            /\ \E r \in RowsNotVisited(i) :
                  PyStr(r.city) = route_df.rows[i + 1].city
            /\ \A r \in RowsNotVisited(i) :
                  get_lat_lng_dist(RowOfStop(i), RowOfStop(i + 1))
                      <= get_lat_lng_dist(RowOfStop(i), r)

\* A(0,0), B(0,1), C(0,10) with start A gives A, B, C
C16_Witness ==
    /\ RouteReturned
    /\ panam_cities = << Row("Peru", "A", 0, 0), Row("Peru", "B", 0, 1),
                         Row("Peru", "C", 0, 10) >>
    /\ route_start_city = "A"
    /\ Len(route_df.rows) = 3
    /\ route_df.rows[1].city = PyStr("A")
    /\ route_df.rows[2].city = PyStr("B")
    /\ route_df.rows[3].city = PyStr("C")

\* C17: in every route get_route returns for a start city of the table, the
\* distance field of every stop but the last is the rounded distance from
\* that stop to the next one, written "<integer> km".
C17_DistanceOfStopIsLegToNextStop ==
    (RouteReturned /\ StartInTable) =>
        \A i \in 1..(Len(route_df.rows) - 1) :
            route_df.rows[i].est_dist =
                PyStr(ToString(RoundKm(get_lat_lng_dist(RowOfStop(i),
                                                        RowOfStop(i + 1))))
                      \o " km")

\* four stops whose legs are 223, 445 and 1113 km long
C17_Witness ==
    /\ RouteReturned
    /\ StartInTable
    /\ Len(route_df.rows) = 4
    /\ route_df.rows[1].est_dist = PyStr("223 km")
    /\ route_df.rows[2].est_dist = PyStr("445 km")
    /\ route_df.rows[3].est_dist = PyStr("1113 km")

\* C18: in every route get_route returns, also the one-stop route of a table
\* of one city, the distance field of the last stop is empty or "none".
C18_LastStopHasNoDistance ==
    RouteReturned =>
        route_df.rows[Len(route_df.rows)].est_dist
            \in { PyStr(""), PyStr("none"), PyStr("None") }

---------------------------------------------------------------------------
(* Claim about the years of the historical dailies, under SpecRoute *)

RECURSIVE SumOfClimatePeriod(_, _, _, _, _)
\* sum of variable k of the day over the years from year to END_YEAR, the
\* last year of the climate period included
SumOfClimatePeriod(station, year, month, day, k) ==
    IF year > END_YEAR THEN 0
    ELSE DailyFetch(station, year, month, day)[k]
         + SumOfClimatePeriod(station, year + 1, month, day, k)

\* the mean of variable k of the day over START_YEAR..END_YEAR, as printed
MeanOfClimatePeriod(station, date, k) ==
    FormatTenths(RoundHalfEven(
        SumOfClimatePeriod(station, START_YEAR, date.month, date.day, k),
        END_YEAR - START_YEAR + 1))

\* C19: the values get_historical_dailies gives for a day are the means over
\* every year from START_YEAR (1991) to END_YEAR (2020) inclusive, the period
\* of the station normals: in every annotated route the three values of the
\* weather strings of a stop are these means, for a station that has daily
\* data for every year of the period.
C19_DailiesCoverStartYearToEndYear ==
    FinalReturned =>
        \A i \in 1..Len(FinalRows) : \A k \in Targets :
            LET station == city_normals[FinalRows[i].city.v].StationID
                d == FinalRows[i].arrival_date.v
            IN  (/\ YearsWithDailies(station) = START_YEAR..END_YEAR
                 /\ \A j \in 1..Len(FinalRows) :
                        j # i => FinalRows[j].city # FinalRows[i].city)
                  => FinalRows[i][k] =
                        "(" \o MeanOfClimatePeriod(station, FromOrdinal(d - 3), k)
                        \o ") " \o MeanOfClimatePeriod(station, FromOrdinal(d), k)
                        \o " (" \o MeanOfClimatePeriod(station, FromOrdinal(d + 3), k)
                        \o ")"

---------------------------------------------------------------------------
(* Claim about uniqueness in the catalog and the table, under SpecCatalog *)

CatalogListsEachCityOnce ==
    \A c \in DOMAIN cities : \A i, j \in 1..Len(cities[c]) :
        (i # j) => cities[c][i] # cities[c][j]

\* C20: after any sequence of add_city and remove_city calls from the empty
\* coordinate table, the table has at most one row for a (country, city) and
\* the catalog lists a city at most once under a country.
C20_TableAndCatalogStayUnique ==
    TableUniqueByCountryAndCity /\ CatalogListsEachCityOnce

---------------------------------------------------------------------------
(* Claim about add_city against load_data, under SpecReload *)

\* the rows of a table, whatever their order
RowsOf(table) == { table[i] : i \in 1..Len(table) }

\* C21: after add_city the coordinate table has the rows, and the normals
\* cache the entry of the added city, that load_data gives for the updated
\* catalog: loading the data again right after the call changes neither.
C21_AddCityAgreesWithLoadData ==
    [][\A files \in GeodataListings :
          (call.op = "add_city" /\ call.status = "ok" /\ ReloadData(files)) =>
              /\ RowsOf(panam_cities') = RowsOf(panam_cities)
              /\ call.city \in DOMAIN city_normals'
              /\ city_normals'[call.city] = city_normals[call.city]]_vars

---------------------------------------------------------------------------
(* Claim about the dates of the weather windows, under SpecRoute *)

\* every entry of edited_cells gives a stop of the route after deletion a
\* number of travel days that is a non-negative integer (key column 3, see C9)
EditsAreTravelDays ==
    \A e \in 1..Len(Cells) :
        /\ Cells[e].row < Cardinality(KeptPositions)
        /\ Cells[e].col = 3
        /\ Cells[e].val.t = "int"
        /\ Cells[e].val.v >= 0

\* C22: for every start date, every start city of the table and every choice
\* of non-negative integer travel days, update_route_table returns a route: the weather annotation pass
\* raises for none of the day/month pairs of the arrival dates and of the
\* days 3 before and after them.
C22_AnnotationPassReturnsForEveryDate ==
    (/\ TableHasCity(panam_cities, route_start_city)
     /\ RouteComputed /\ ~route_df.raised /\ UpdateCalled
     /\ EditsAreTravelDays /\ KeptPositions # {})
        => FinalReturned

=============================================================================
